---------------------------- MODULE Spec2Model ----------------------------
(***************************************************************************)
(* Model of the social-monitoring batch pipeline:                          *)
(*   src/db_handler.py         DatabaseHandler (PostgreSQL persistence)    *)
(*   src/main_orchestrator.py  PipelineMetrics, SocialMonitoringPipeline,  *)
(*                             main                                        *)
(*                                                                         *)
(* Five specifications share the variables:                                *)
(*   Spec         main() / SocialMonitoringPipeline.run(), stage by stage, *)
(*                with the faults its collaborators, the database and the  *)
(*                summary file can raise;                                  *)
(*   SpecDB       DatabaseHandler.insert_raw_posts /                       *)
(*                insert_processed_posts called once with an arbitrary     *)
(*                batch on an arbitrary valid store;                       *)
(*   SpecOps      sequences of DatabaseHandler operations on one handler   *)
(*                and its connection pool;                                 *)
(*   SpecMetrics  PipelineMetrics.start_stage / end_stage in any order;    *)
(*   SpecPair     the run of main() when the collection returns two posts. *)
(***************************************************************************)
EXTENDS Integers, Sequences, FiniteSets, TLC

(***************************************************************************)
(* Bounds of the model.                                                    *)
(***************************************************************************)
MaxReruns == 1
\* calls of run() on the pipeline after the one main() makes, in Spec
MaxFaults == 2
\* faults injected in one behaviour of Spec
MaxDbBatch == 3
\* posts in one batch of SpecDB
TicksPerRun == 16
\* clock value between the starts of two runs (a run takes fewer steps)
MaxOpCalls == 4
\* calls of DatabaseHandler operations in one behaviour of SpecOps
MaxClock == 2
\* last value of the clock in SpecMetrics

PostIds == {"p1", "p2", "p3"}
\* post identifiers (post_id)
Collections == {<<>>, <<"p1">>}
\* what one collection returns in Spec (the post_id of its posts)
Versions == {1, 2}
\* distinguishable contents of a post (title, score, ... ) in SpecDB

(***************************************************************************)
(* State.                                                                  *)
(***************************************************************************)
VARIABLES
    \* ---- the PostgreSQL store (schema social_monitoring) ----
    raw_posts,          \* table raw_posts, in insertion order
    processed_posts,    \* table processed_posts
    alerts,             \* table alerts
    pipeline_metrics,   \* table pipeline_metrics
    \* ---- the last direct call of the persistence layer (SpecDB) ----
    pool,               \* self.pool: [out, peak, closed]: connections checked
                        \* out, the most that ever were, closeall() done
    last_call,          \* [op, fault, pre, ret, raised, known, first]: the
                        \* call, its fault, the table before it, its result,
                        \* whether the batch held an identifier that was
                        \* already stored, and the new rows of the batch
                        \* (see NewRows)
    \* ---- SocialMonitoringPipeline / main ----
    pc,                 \* position in run()
    metrics,            \* self.metrics: the PipelineMetrics accumulator
    now,                \* time.time()
    runs,               \* invocations so far
    via_main,           \* this run was started by main() on a new pipeline
    run_raw,            \* run(): raw_posts
    run_processed,      \* run(): processed_posts
    raw_count,          \* _store_data: raw_count
    exc,                \* the exception in flight out of run(), or "none"
    run_outcome,        \* "none" | "returned" | "raised"
    main_exit,          \* "none" | "0" | "1": what main() returned
    summary_file,       \* pipeline_summary.json
    entered,            \* stages entered in this run, in order
    active,             \* stages entered and not yet left
    db_calls,           \* persistence calls made in this run
    errs0,              \* Len(metrics.errors) when this run started
    finalize_count,     \* executions of run()'s finally block in this run
    metric_idx,         \* _record_metrics: next record_metric call
    rec_summary,        \* _record_metrics: summary = get_summary()
    failed,             \* the stages whose body raised in this run
                        \* ("summary": _print_summary raised)
    faults              \* faults injected so far

dbvars == <<raw_posts, processed_posts, alerts, pipeline_metrics>>
callvars == <<last_call, pool>>
runvars == <<pc, metrics, now, runs, via_main, run_raw, run_processed,
             raw_count, exc, run_outcome, main_exit, summary_file, entered,
             active, db_calls, errs0, finalize_count, metric_idx,
             rec_summary, failed, faults>>
vars == <<dbvars, callvars, runvars>>

(***************************************************************************)
(* Sequences helpers.                                                      *)
(***************************************************************************)
SeqsUpTo(S, n) == UNION {[1..k -> S] : k \in 0..n}

IsPrefix(s, t) == Len(s) <= Len(t) /\ SubSeq(t, 1, Len(s)) = s

\* Variant: a count of all the posts, whatever their flag.
CountIf_All(s, flag) == Len(s)

RECURSIVE CountIf(_, _)
CountIf(s, flag) ==
    IF s = <<>> THEN 0
    ELSE (IF Head(s).alert_triggered = flag THEN 1 ELSE 0) + CountIf(Tail(s), flag)

(***************************************************************************)
(* DatabaseHandler: the statements.                                        *)
(*                                                                         *)
(* A statement result is [table, rowcount, ok]: the table after the        *)
(* statement, the rows it affected, and whether it ran without error.      *)
(***************************************************************************)
HasPost(table, id) == \E i \in 1..Len(table) : table[i].post_id = id

\* Variant: the INSERT without its ON CONFLICT clause, so that the UNIQUE
\* constraint on post_id raises on a stored identifier.
InsertRawStatement_NoOnConflict(table, post) ==
    IF HasPost(table, post.post_id)
    THEN [table |-> table, rowcount |-> 0, ok |-> FALSE]
    ELSE [table |-> Append(table, post), rowcount |-> 1, ok |-> TRUE]

\* Variant: a plain INSERT into a table without the UNIQUE constraint.
InsertRawStatement_NoUnique(table, post) ==
    [table |-> Append(table, post), rowcount |-> 1, ok |-> TRUE]

\* INSERT INTO raw_posts ... ON CONFLICT (post_id) DO NOTHING, against
\* post_id VARCHAR(255) UNIQUE NOT NULL.
InsertRawStatement(table, post) ==
    IF HasPost(table, post.post_id)
    THEN [table |-> table, rowcount |-> 0, ok |-> TRUE]
    ELSE [table |-> Append(table, post), rowcount |-> 1, ok |-> TRUE]

\* INSERT INTO processed_posts ...: no uniqueness, but
\* post_id REFERENCES raw_posts(post_id): a row without its raw post is a
\* foreign-key violation.
InsertProcessedStatement(raw, table, post) ==
    IF HasPost(raw, post.post_id)
    THEN [table |-> Append(table, post), rowcount |-> 1, ok |-> TRUE]
    ELSE [table |-> table, rowcount |-> 0, ok |-> FALSE]

\* execute_batch(cursor, insert_query, values) followed by cursor.rowcount.
\* psycopg2 joins the statements of a page with ";" and sends each page in
\* one cursor.execute(); cursor.rowcount is then the row count of the LAST
\* statement executed, not a total, and stays -1 when nothing was executed.
RECURSIVE ExecuteBatchRaw(_, _)
ExecuteBatchRaw(st, values) ==
    IF values = <<>> \/ ~st.ok THEN st
    ELSE ExecuteBatchRaw(InsertRawStatement(st.table, Head(values)), Tail(values))

RECURSIVE ExecuteBatchProcessed(_, _, _)
ExecuteBatchProcessed(raw, st, values) ==
    IF values = <<>> \/ ~st.ok THEN st
    ELSE ExecuteBatchProcessed(raw,
             InsertProcessedStatement(raw, st.table, Head(values)), Tail(values))

NewCursor(table) == [table |-> table, rowcount |-> -1, ok |-> TRUE]

(***************************************************************************)
(* DatabaseHandler: the operations.  A fault is what the environment makes *)
(* fail in the call: "connect" (pool.getconn), "execute" (a statement of   *)
(* the call), "commit"; "none" for a call the environment lets through.    *)
(* The result is [table, ret, raised].                                     *)
(***************************************************************************)
DbFaults == {"connect", "execute", "commit"}

\* A batch insert can also fail while it builds the values of its
\* statements (a record without one of the columns' keys).
BatchFaults == DbFaults \cup {"values"}

\* Variant: a rollback that keeps the work of the transaction.
Rollback_KeepsWork(before, work) == work

\* conn.rollback() in the except block (and the server's own rollback of a
\* transaction whose connection is gone): the table is what it was before
\* the transaction.
Rollback(before, work) == before

\* The table as the open transaction of a failing batch insert sees it:
\* nothing done for a fault before the first statement, the statements
\* before the last for an "execute" fault, the statements before the one
\* that violated a constraint, every statement for a "commit" fault.
WorkAtFailure(table, res, resButLast, fault) ==
    CASE fault \in {"connect", "values"} -> table
      [] fault = "execute" -> resButLast.table
      [] OTHER -> res.table

\* insert_raw_posts(posts): one transaction; on any exception rollback and
\* re-raise; returns inserted_count = cursor.rowcount.
insert_raw_posts(table, posts, fault) ==
    LET res == ExecuteBatchRaw(NewCursor(table), posts)
        resButLast == ExecuteBatchRaw(NewCursor(table),
                                      SubSeq(posts, 1, Len(posts) - 1))
    IN  IF fault # "none" \/ ~res.ok
        THEN [table |-> Rollback(table, WorkAtFailure(table, res, resButLast, fault)),
              ret |-> 0, raised |-> TRUE]
        ELSE [table |-> res.table, ret |-> res.rowcount, raised |-> FALSE]

\* insert_processed_posts(posts, model_version): the same shape, without
\* ON CONFLICT.
insert_processed_posts(raw, table, posts, fault) ==
    LET res == ExecuteBatchProcessed(raw, NewCursor(table), posts)
        resButLast == ExecuteBatchProcessed(raw, NewCursor(table),
                                            SubSeq(posts, 1, Len(posts) - 1))
    IN  IF fault # "none" \/ ~res.ok
        THEN [table |-> Rollback(table, WorkAtFailure(table, res, resButLast, fault)),
              ret |-> 0, raised |-> TRUE]
        ELSE [table |-> res.table, ret |-> res.rowcount, raised |-> FALSE]


\* record_metric(metric_name, metric_value): one row; every exception of the
\* try block is swallowed.  With fault "connection_lost" the statement
\* fails and conn.rollback() in the except block raises as well: that
\* exception leaves record_metric.
MetricFaults == DbFaults \cup {"connection_lost"}

record_metric(table, name, value, fault) ==
    IF fault = "none"
    THEN [table |-> Append(table, [metric_name |-> name, metric_value |-> value]),
          raised |-> FALSE]
    ELSE [table |-> table, raised |-> (fault = "connection_lost")]

(***************************************************************************)
(* DatabaseHandler: the connection pool.  Every operation has the shape    *)
(*   conn = None                                                           *)
(*   try: conn = self.get_connection(); ...                                *)
(*   except: ...                                                           *)
(*   finally: if conn: self.return_connection(conn)                        *)
(***************************************************************************)
NewPool == [out |-> 0, peak |-> 0, closed |-> FALSE]

\* get_connection: pool.getconn() raises on a closed pool and when the
\* environment fails it ("connect"); conn then stays None.
get_connection(p, fault) ==
    IF p.closed \/ fault = "connect"
    THEN [pool |-> p, conn |-> FALSE]
    ELSE [pool |-> [p EXCEPT !.out = @ + 1,
                             !.peak = IF p.out + 1 > @ THEN p.out + 1 ELSE @],
          conn |-> TRUE]

\* return_connection: pool.putconn(conn)
return_connection(p) == [p EXCEPT !.out = @ - 1]

\* Variant: the release at the end of the try block instead of in finally.
ReleaseInFinally_OnSuccessOnly(p, conn, body_raised) ==
    IF conn /\ ~body_raised THEN return_connection(p) ELSE p

\* finally: if conn: self.return_connection(conn)
ReleaseInFinally(p, conn, body_raised) ==
    IF conn THEN return_connection(p) ELSE p

\* The pool after one operation whose try block raised or not.
UseConnection(p, fault, body_raised) ==
    LET g == get_connection(p, fault)
    IN  ReleaseInFinally(g.pool, g.conn, body_raised)

\* The pool after n operations that did not raise.
RECURSIVE UseConnectionTimes(_, _)
UseConnectionTimes(p, n) ==
    IF n = 0 THEN p ELSE UseConnectionTimes(UseConnection(p, "none", FALSE), n - 1)

\* close(): if self.pool: self.pool.closeall().  self.pool is never reset,
\* and closeall() raises PoolError on a pool that is already closed.
close(p) ==
    IF p.closed
    THEN [pool |-> p, raised |-> TRUE]
    ELSE [pool |-> [p EXCEPT !.closed = TRUE], raised |-> FALSE]

(***************************************************************************)
(* PipelineMetrics.                                                        *)
(***************************************************************************)
NoTime == 0
\* None for start_time / end_time (both are falsy in get_summary's test)

TimedStages == {"collection", "processing", "storage", "alerts"}

NoStage == [present |-> FALSE, start |-> 0, has_end |-> FALSE, end |-> 0, duration |-> 0]

\* PipelineMetrics.__init__
InitMetrics ==
    [start_time |-> NoTime, end_time |-> NoTime,
     posts_collected |-> 0, posts_processed |-> 0, posts_stored |-> 0,
     alerts_generated |-> 0, errors |-> <<>>,
     stage_durations |-> [s \in TimedStages |-> NoStage]]

\* start_stage: self.stage_durations[stage_name] = {'start': time.time()}
start_stage(m, stage_name, t) ==
    [m EXCEPT !.stage_durations[stage_name] =
        [present |-> TRUE, start |-> t, has_end |-> FALSE, end |-> 0, duration |-> 0]]

\* Variant: end_stage without its test of stage_name in stage_durations.
end_stage_NoStartCheck(m, stage_name, t) ==
    LET start == m.stage_durations[stage_name].start
    IN  [m EXCEPT !.stage_durations[stage_name] =
            [present |-> @.present, start |-> start, has_end |-> TRUE,
             end |-> t, duration |-> t - start]]

\* end_stage: only for a stage_name in stage_durations
end_stage(m, stage_name, t) ==
    IF m.stage_durations[stage_name].present
    THEN LET start == m.stage_durations[stage_name].start
         IN  [m EXCEPT !.stage_durations[stage_name] =
                 [present |-> TRUE, start |-> start, has_end |-> TRUE,
                  end |-> t, duration |-> t - start]]
    ELSE m

\* add_error (the timestamp of the entry is left out)
add_error(m, stage, error) ==
    [m EXCEPT !.errors = Append(@, [stage |-> stage, error |-> error])]

\* get_summary
get_summary(m) ==
    [execution_time |-> IF m.end_time # NoTime /\ m.start_time # NoTime
                        THEN m.end_time - m.start_time ELSE 0,
     start_time |-> m.start_time,
     end_time |-> m.end_time,
     posts_collected |-> m.posts_collected,
     posts_processed |-> m.posts_processed,
     posts_stored |-> m.posts_stored,
     alerts_generated |-> m.alerts_generated,
     error_count |-> Len(m.errors),
     errors |-> m.errors,
     stage_durations |->
         [k \in {s \in TimedStages : m.stage_durations[s].present} |->
             IF m.stage_durations[k].has_end THEN m.stage_durations[k].duration ELSE 0]]

(***************************************************************************)
(* Initial state: a constructed pipeline, an initialised empty schema, no  *)
(* summary file.                                                           *)
(***************************************************************************)
NoCall ==
    [op |-> "none", fault |-> "none", pre |-> <<>>, ret |-> 0, raised |-> FALSE,
     known |-> FALSE, first |-> <<>>]

NoFile == [state |-> "absent", content |-> <<>>]

InitRun ==
    /\ pc = "idle"
    /\ metrics = InitMetrics
    /\ now = 0
    /\ runs = 0
    /\ via_main = FALSE
    /\ run_raw = <<>>
    /\ run_processed = <<>>
    /\ raw_count = 0
    /\ exc = "none"
    /\ run_outcome = "none"
    /\ main_exit = "none"
    /\ summary_file = NoFile
    /\ entered = <<>>
    /\ active = {}
    /\ db_calls = 0
    /\ errs0 = 0
    /\ finalize_count = 0
    /\ metric_idx = 0
    /\ rec_summary = get_summary(InitMetrics)
    /\ failed = {}
    /\ faults = 0

Init ==
    /\ raw_posts = <<>>
    /\ processed_posts = <<>>
    /\ alerts = <<>>
    /\ pipeline_metrics = <<>>
    /\ last_call = NoCall
    /\ pool = NewPool
    /\ InitRun

(***************************************************************************)
(* SpecDB: the persistence layer called directly.  The store a call finds  *)
(* is any store earlier calls can have left: raw rows with pairwise        *)
(* distinct post_id (every such table is what one insert_raw_posts call    *)
(* leaves of an empty table), and processed rows of stored posts.          *)
(***************************************************************************)
DbPosts == [post_id : PostIds, ver : Versions]

DbProcessed == [post_id : PostIds, alert_triggered : BOOLEAN]

UniqueIds(table) ==
    \A i, j \in 1..Len(table) : table[i].post_id = table[j].post_id => i = j

\* The stored rows carry the first version; the batches carry any.
StoredRaw ==
    {t \in SeqsUpTo([post_id : PostIds, ver : {1}], Cardinality(PostIds)) :
        UniqueIds(t)}

InitDB ==
    /\ raw_posts \in StoredRaw
    /\ processed_posts \in
           {t \in SeqsUpTo(DbProcessed, 1) :
               \A i \in 1..Len(t) : HasPost(raw_posts, t[i].post_id)}
    /\ alerts = <<>>
    /\ pipeline_metrics = <<>>
    /\ last_call = NoCall
    /\ pool = NewPool
    /\ InitRun

CallFaults == {"none"} \cup BatchFaults

\* The posts of a batch that are new to the table: not stored in it, and
\* not repeating an identifier of an earlier post of the batch.
NewRows(table, posts) ==
    LET new(i) == /\ ~HasPost(table, posts[i].post_id)
                  /\ \A j \in 1..(i - 1) : posts[j].post_id # posts[i].post_id
        idx == {i \in 1..Len(posts) : new(i)}
        RECURSIVE pick(_)
        pick(i) == IF i > Len(posts) THEN <<>>
                   ELSE (IF i \in idx THEN <<posts[i]>> ELSE <<>>) \o pick(i + 1)
    IN  pick(1)

\* The faults injected into the persistence calls of a run in Spec: the
\* places where a call can fail differ, for run(), in the message only.
RunFaults == {"none", "execute"}

CallInsertRawPosts ==
    /\ last_call.op = "none"
    /\ \E posts \in SeqsUpTo(DbPosts, MaxDbBatch), fault \in CallFaults :
        LET r == insert_raw_posts(raw_posts, posts, fault)
        IN  /\ raw_posts' = r.table
            /\ last_call' = [op |-> "insert_raw_posts", fault |-> fault,
                             pre |-> raw_posts, ret |-> r.ret, raised |-> r.raised,
                             known |-> \E i \in 1..Len(posts) :
                                          HasPost(raw_posts, posts[i].post_id),
                             first |-> NewRows(raw_posts, posts)]
            /\ pool' = UseConnection(pool, fault, r.raised)
    /\ UNCHANGED <<processed_posts, alerts, pipeline_metrics, runvars>>

CallInsertProcessedPosts ==
    /\ last_call.op = "none"
    /\ \E posts \in SeqsUpTo(DbProcessed, MaxDbBatch), fault \in CallFaults :
        LET r == insert_processed_posts(raw_posts, processed_posts, posts, fault)
        IN  /\ processed_posts' = r.table
            /\ last_call' = [op |-> "insert_processed_posts", fault |-> fault,
                             pre |-> processed_posts, ret |-> r.ret,
                             raised |-> r.raised,
                             known |-> \A i \in 1..Len(posts) :
                                          HasPost(raw_posts, posts[i].post_id),
                             first |-> posts]
            /\ pool' = UseConnection(pool, fault, r.raised)
    /\ UNCHANGED <<raw_posts, alerts, pipeline_metrics, runvars>>

NextDB == CallInsertRawPosts \/ CallInsertProcessedPosts

SpecDB == InitDB /\ [][NextDB]_vars

(***************************************************************************)
(* SocialMonitoringPipeline.run(), stage by stage.                         *)
(*                                                                         *)
(* pc is the stage run() is in: "collection", "processing", "storage"      *)
(* (before insert_raw_posts), "storage_processed" (before                  *)
(* insert_processed_posts), "alerts", "metrics" (before the record_metric  *)
(* call number metric_idx), then "finalize" (the finally block) and        *)
(* "return" (run() hands over to its caller).  One action is one stage     *)
(* body, with the end of its stage and the entry into the next.            *)
(***************************************************************************)
\* Variant: storage and alerting in the other order.
StageAfter_AlertsFirst(stage) ==
    CASE stage = "collection" -> "processing"
      [] stage = "processing" -> "alerts"
      [] stage = "alerts"     -> "storage"
      [] stage = "storage"    -> "metrics"

\* Variant: a run() that goes from processing to alerting, without storage.
StageAfter_StorageSkipped(stage) ==
    CASE stage = "collection" -> "processing"
      [] stage = "processing" -> "alerts"
      [] stage = "storage"    -> "alerts"
      [] stage = "alerts"     -> "metrics"

\* run(): the order of the stage calls in the try block.
StageAfter(stage) ==
    CASE stage = "collection" -> "processing"
      [] stage = "processing" -> "storage"
      [] stage = "storage"    -> "alerts"
      [] stage = "alerts"     -> "metrics"

\* The order of the five record_metric calls of _record_metrics.
MetricNames ==
    <<"posts_collected", "posts_processed", "alerts_generated",
      "execution_time", "error_count">>

\* Entering a stage method: _collect_data, _process_data, _store_data and
\* _generate_alerts start their timer; _record_metrics takes its summary.
EnterStage(m, stage, t) ==
    /\ pc' = stage
    /\ entered' = Append(entered, stage)
    /\ active' = {stage}
    /\ metrics' = IF stage \in TimedStages THEN start_stage(m, stage, t) ELSE m
    /\ IF stage = "metrics"
       THEN metric_idx' = 1 /\ rec_summary' = get_summary(m)
       ELSE UNCHANGED <<metric_idx, rec_summary>>

\* Variant: a run() whose cleanup is not in a finally block, so that an
\* exception in flight skips it.
ToFinally_SkippedOnError(m, e) ==
    /\ pc' = IF e = "none" THEN "finalize" ELSE "return"
    /\ active' = {}
    /\ metrics' = m
    /\ exc' = e
    /\ UNCHANGED <<entered, metric_idx, rec_summary>>

\* Leaving the try block of run() for its finally block, with the
\* exception in flight (or "none").
ToFinally(m, e) ==
    /\ pc' = "finalize"
    /\ active' = {}
    /\ metrics' = m
    /\ exc' = e
    /\ UNCHANGED <<entered, metric_idx, rec_summary>>

\* Variant: a fatal stage that records its error and does not re-raise.
StageFails_NoRaise(m, stage, e, t) ==
    /\ EnterStage(end_stage(add_error(m, stage, e), stage, t), StageAfter(stage), t)
    /\ UNCHANGED exc

\* Variant: a run() whose except block re-raises without its own entry.
StageFails_NoPipelineEntry(m, stage, e, t) ==
    ToFinally(end_stage(add_error(m, stage, e), stage, t), e)

\* Variant: _store_data with posts_stored assigned right after
\* insert_raw_posts, before the processed batch is written.
StageFails_RawCounted(m, stage, e, t) ==
    ToFinally(add_error(end_stage(add_error([m EXCEPT !.posts_stored = raw_count],
                                            stage, e), stage, t), "pipeline", e), e)

\* A fatal stage fails: its except block records the error and re-raises,
\* its finally block ends the stage, and run()'s except block records the
\* error again under 'pipeline' and re-raises.
StageFails(m, stage, e, t) ==
    ToFinally(add_error(end_stage(add_error(m, stage, e), stage, t), "pipeline", e), e)

\* A new invocation: what run() and its caller keep about the last one is
\* forgotten.
BeginRun(m, by_main) ==
    /\ pc = "idle"
    /\ now' = runs * TicksPerRun + 1
    /\ via_main' = by_main
    /\ run_raw' = <<>>
    /\ run_processed' = <<>>
    /\ raw_count' = 0
    /\ exc' = "none"
    /\ run_outcome' = "none"
    /\ main_exit' = "none"
    /\ db_calls' = 0
    /\ errs0' = Len(m.errors)
    /\ finalize_count' = 0
    /\ failed' = {}
    /\ pc' = "collection"
    /\ entered' = <<"collection">>
    /\ active' = {"collection"}
    /\ metrics' = start_stage([m EXCEPT !.start_time = now'], "collection", now')
    /\ UNCHANGED <<dbvars, callvars, runs, summary_file, metric_idx,
                   rec_summary, faults>>

\* main(): load_config, SocialMonitoringPipeline(config), pipeline.run().
\* main() is the entry point of the process: it is called once.
MainRun == runs = 0 /\ main_exit = "none" /\ BeginRun(InitMetrics, TRUE)

\* run() called again on the pipeline of the last run, by a caller that
\* keeps the pipeline.
RunAgain == runs > 0 /\ runs <= MaxReruns /\ BeginRun(metrics, FALSE)

\* main(): load_config or the constructor raises; run() is not called.
MainStartupFails ==
    /\ pc = "idle"
    /\ runs = 0
    /\ faults < MaxFaults
    /\ main_exit = "none"
    /\ run_outcome = "none"
    /\ main_exit' = "1"
    /\ faults' = faults + 1
    /\ UNCHANGED <<dbvars, callvars, pc, metrics, now, runs, via_main, run_raw,
                   run_processed, raw_count, exc, run_outcome, summary_file,
                   entered, active, db_calls, errs0, finalize_count,
                   metric_idx, rec_summary, failed>>

\* _collect_data
CollectPosts(ids) == [i \in 1..Len(ids) |-> [post_id |-> ids[i], ver |-> 1]]

CollectData ==
    /\ pc = "collection"
    /\ now' = now + 1
    /\ \/ /\ faults < MaxFaults
          /\ faults' = faults + 1
          /\ StageFails(metrics, "collection", "collect_failed", now')
          /\ failed' = failed \cup {"collection"}
          /\ UNCHANGED run_raw
       \/ \E ids \in Collections :
            LET posts == CollectPosts(ids)
                m == end_stage([metrics EXCEPT !.posts_collected = Len(posts)],
                               "collection", now')
            IN  /\ run_raw' = posts
                /\ IF posts = <<>>
                   THEN ToFinally(m, "none")
                   ELSE EnterStage(m, StageAfter("collection"), now') /\ UNCHANGED exc
                /\ UNCHANGED <<faults, failed>>
    /\ UNCHANGED <<dbvars, callvars, runs, via_main, run_processed, raw_count,
                   run_outcome, main_exit, summary_file, db_calls, errs0,
                   finalize_count>>

\* ml_processor.process_posts: for every input post, in order, nothing, a
\* processed post, or a processed post that triggers an alert.
Verdicts == {"drop", "plain", "alert"}

RECURSIVE ProcessPosts(_, _, _)
ProcessPosts(posts, verdict, i) ==
    IF i > Len(posts) THEN <<>>
    ELSE (IF verdict[i] = "drop" THEN <<>>
          ELSE <<[post_id |-> posts[i].post_id,
                  alert_triggered |-> (verdict[i] = "alert")]>>)
         \o ProcessPosts(posts, verdict, i + 1)

\* _process_data
ProcessData ==
    /\ pc = "processing"
    /\ now' = now + 1
    /\ \/ /\ faults < MaxFaults
          /\ faults' = faults + 1
          /\ StageFails(metrics, "processing", "process_failed", now')
          /\ failed' = failed \cup {"processing"}
          /\ UNCHANGED run_processed
       \/ \E verdict \in [1..Len(run_raw) -> Verdicts] :
            LET processed == ProcessPosts(run_raw, verdict, 1)
                m == end_stage([metrics EXCEPT !.posts_processed = Len(processed)],
                               "processing", now')
            IN  /\ run_processed' = processed
                /\ IF processed = <<>>
                   THEN ToFinally(m, "none")
                   ELSE EnterStage(m, StageAfter("processing"), now') /\ UNCHANGED exc
                /\ UNCHANGED <<faults, failed>>
    /\ UNCHANGED <<dbvars, callvars, runs, via_main, run_raw, raw_count,
                   run_outcome, main_exit, summary_file, db_calls, errs0,
                   finalize_count>>

\* _store_data, first half: insert_raw_posts
StoreRawPosts ==
    /\ pc = "storage"
    /\ now' = now + 1
    /\ db_calls' = db_calls + 1
    /\ \E fault \in RunFaults :
        LET r == insert_raw_posts(raw_posts, run_raw, fault)
        IN  /\ fault # "none" => faults < MaxFaults
            /\ faults' = IF fault # "none" THEN faults + 1 ELSE faults
            /\ raw_posts' = r.table
            /\ pool' = UseConnection(pool, fault, r.raised)
            /\ IF r.raised
               THEN /\ StageFails(metrics, "storage", fault, now')
                    /\ failed' = failed \cup {"storage"}
                    /\ UNCHANGED raw_count
               ELSE /\ raw_count' = r.ret
                    /\ pc' = "storage_processed"
                    /\ UNCHANGED <<metrics, exc, entered, active, metric_idx,
                                   rec_summary, failed>>
    /\ UNCHANGED <<processed_posts, alerts, pipeline_metrics, last_call, runs,
                   via_main, run_raw, run_processed, run_outcome, main_exit,
                   summary_file, errs0, finalize_count>>

\* _store_data, second half: insert_processed_posts, then
\* self.metrics.posts_stored = raw_count
StoreProcessedPosts ==
    /\ pc = "storage_processed"
    /\ now' = now + 1
    /\ db_calls' = db_calls + 1
    /\ \E fault \in RunFaults :
        LET r == insert_processed_posts(raw_posts, processed_posts,
                                        run_processed, fault)
        IN  /\ fault # "none" => faults < MaxFaults
            /\ faults' = IF fault # "none" THEN faults + 1 ELSE faults
            /\ processed_posts' = r.table
            /\ pool' = UseConnection(pool, fault, r.raised)
            /\ IF r.raised
               THEN /\ StageFails(metrics, "storage",
                                  IF fault = "none" THEN "constraint" ELSE fault, now')
                    /\ failed' = failed \cup {"storage"}
               ELSE /\ EnterStage(end_stage([metrics EXCEPT !.posts_stored = raw_count],
                                            "storage", now'),
                                  StageAfter("storage"), now')
                    /\ UNCHANGED <<exc, failed>>
    /\ UNCHANGED <<raw_posts, alerts, pipeline_metrics, last_call, runs,
                   via_main, run_raw, run_processed, raw_count, run_outcome,
                   main_exit, summary_file, errs0, finalize_count>>

\* insert_alert: one row, triggered_at assigned by the layer, RETURNING id
insert_alert(table, post_id, t, fault) ==
    IF fault # "none"
    THEN [table |-> table, raised |-> TRUE]
    ELSE [table |-> Append(table, [id |-> Len(table) + 1, post_id |-> post_id,
                                    triggered_at |-> t, acknowledged |-> FALSE]),
          raised |-> FALSE]

\* The processed posts that trigger an alert, in order.
Triggered(processed) == SelectSeq(processed, LAMBDA p : p.alert_triggered)

\* AlertManager.process_alerts: insert_alert for every processed post whose
\* alert_triggered is true (the delivery that follows each insert cannot
\* fail the call).  fail_at is the number of the insert_alert call that
\* raises, 0 when none does.
RECURSIVE process_alerts(_, _, _, _, _)
process_alerts(table, triggered, i, t, fail_at) ==
    IF i > Len(triggered) THEN [table |-> table, raised |-> FALSE]
    ELSE LET r == insert_alert(table, triggered[i].post_id, t,
                               IF i = fail_at THEN "execute" ELSE "none")
         IN  IF r.raised THEN r
             ELSE process_alerts(r.table, triggered, i + 1, t, fail_at)

\* _generate_alerts
GenerateAlerts ==
    /\ pc = "alerts"
    /\ now' = now + 1
    /\ \E fail_at \in 0..Len(Triggered(run_processed)) :
        LET r == process_alerts(alerts, Triggered(run_processed), 1, now', fail_at)
            m == IF r.raised
                 THEN add_error(metrics, "alerts", "alert_failed")
                 ELSE [metrics EXCEPT !.alerts_generated = CountIf(run_processed, TRUE)]
        IN  /\ fail_at # 0 => faults < MaxFaults
            /\ faults' = IF fail_at # 0 THEN faults + 1 ELSE faults
            /\ alerts' = r.table
            /\ pool' = LET done == UseConnectionTimes(pool, Len(r.table) - Len(alerts))
                        IN  IF r.raised THEN UseConnection(done, "execute", TRUE)
                            ELSE done
            /\ failed' = IF r.raised THEN failed \cup {"alerts"} ELSE failed
            /\ db_calls' = db_calls + (Len(r.table) - Len(alerts))
                                    + (IF r.raised THEN 1 ELSE 0)
            /\ EnterStage(end_stage(m, "alerts", now'), StageAfter("alerts"), now')
    /\ UNCHANGED <<raw_posts, processed_posts, pipeline_metrics, last_call, runs,
                   via_main, run_raw, run_processed, raw_count, exc,
                   run_outcome, main_exit, summary_file, errs0, finalize_count>>

\* _record_metrics: the record_metric call number metric_idx.  An exception
\* that leaves record_metric is caught by _record_metrics, which logs it.
RecordMetrics ==
    /\ pc = "metrics"
    /\ now' = now + 1
    /\ db_calls' = db_calls + 1
    /\ \E fault \in RunFaults \cup {"connection_lost"} :
        LET name == MetricNames[metric_idx]
            r == record_metric(pipeline_metrics, name, rec_summary[name], fault)
        IN  /\ fault # "none" => faults < MaxFaults
            /\ faults' = IF fault # "none" THEN faults + 1 ELSE faults
            /\ pipeline_metrics' = r.table
            /\ pool' = UseConnection(pool, fault, fault # "none")
            /\ failed' = IF r.raised THEN failed \cup {"metrics"} ELSE failed
            /\ IF r.raised \/ metric_idx = Len(MetricNames)
               THEN ToFinally(metrics, "none")
               ELSE /\ metric_idx' = metric_idx + 1
                    /\ UNCHANGED <<pc, metrics, exc, entered, active, rec_summary>>
    /\ UNCHANGED <<raw_posts, processed_posts, alerts, last_call, runs, via_main,
                   run_raw, run_processed, raw_count, run_outcome, main_exit,
                   summary_file, errs0, finalize_count>>

\* _print_summary: open('pipeline_summary.json', 'w') and json.dump.
\* "ok" writes the summary; "open_failed" leaves the file as it was;
\* "write_failed" leaves it truncated.  Both failures raise.
WriteOutcomes == {"ok", "open_failed", "write_failed"}

print_summary(file, m, outcome) ==
    CASE outcome = "ok" ->
            [file |-> [state |-> "written", content |-> <<get_summary(m)>>],
             raised |-> FALSE]
      [] outcome = "open_failed" -> [file |-> file, raised |-> TRUE]
      [] outcome = "write_failed" ->
            [file |-> [state |-> "truncated", content |-> <<>>], raised |-> TRUE]

\* run(): the finally block.  An exception of _print_summary replaces the
\* one in flight.
Finalize ==
    /\ pc = "finalize"
    /\ now' = now + 1
    /\ metrics' = [metrics EXCEPT !.end_time = now']
    /\ finalize_count' = finalize_count + 1
    /\ \E outcome \in WriteOutcomes :
        LET r == print_summary(summary_file, metrics', outcome)
        IN  /\ outcome # "ok" => faults < MaxFaults
            /\ faults' = IF outcome # "ok" THEN faults + 1 ELSE faults
            /\ summary_file' = r.file
            /\ failed' = IF r.raised THEN failed \cup {"summary"} ELSE failed
            /\ exc' = IF r.raised THEN "summary_write_failed" ELSE exc
    /\ pc' = "return"
    /\ UNCHANGED <<dbvars, callvars, runs, via_main, run_raw, run_processed,
                   raw_count, run_outcome, main_exit, entered, active, db_calls,
                   errs0, metric_idx, rec_summary>>

\* Variant: main() that reports success whatever run() did.
MainExit_AlwaysZero(raised) == "0"

\* main(): return 0 after pipeline.run(), return 1 in the except block.
MainExit(raised) == IF raised THEN "1" ELSE "0"

\* run() returns or raises to its caller.
RunReturn ==
    /\ pc = "return"
    /\ run_outcome' = IF exc = "none" THEN "returned" ELSE "raised"
    /\ main_exit' = IF via_main THEN MainExit(exc # "none") ELSE main_exit
    /\ pc' = "idle"
    /\ runs' = runs + 1
    /\ UNCHANGED <<dbvars, callvars, metrics, now, via_main, run_raw,
                   run_processed, raw_count, exc, summary_file, entered, active,
                   db_calls, errs0, finalize_count, metric_idx, rec_summary,
                   failed, faults>>

Next ==
    \/ MainRun
    \/ RunAgain
    \/ MainStartupFails
    \/ CollectData
    \/ ProcessData
    \/ StoreRawPosts
    \/ StoreProcessedPosts
    \/ GenerateAlerts
    \/ RecordMetrics
    \/ Finalize
    \/ RunReturn

Spec == Init /\ [][Next]_vars

(***************************************************************************)
(* SpecPair: the run main() makes, when the collection returns two posts:  *)
(* the processed batch and the alerts of the run can then hold a post that *)
(* triggers an alert next to one that does not, or two that do.            *)
(***************************************************************************)
PairCollections == {<<"p1", "p2">>}

\* _collect_data, returning two posts
CollectDataPair ==
    /\ pc = "collection"
    /\ now' = now + 1
    /\ \/ /\ faults < MaxFaults
          /\ faults' = faults + 1
          /\ StageFails(metrics, "collection", "collect_failed", now')
          /\ failed' = failed \cup {"collection"}
          /\ UNCHANGED run_raw
       \/ \E ids \in PairCollections :
            LET posts == CollectPosts(ids)
                m == end_stage([metrics EXCEPT !.posts_collected = Len(posts)],
                               "collection", now')
            IN  /\ run_raw' = posts
                /\ EnterStage(m, StageAfter("collection"), now')
                /\ UNCHANGED <<exc, faults, failed>>
    /\ UNCHANGED <<dbvars, callvars, runs, via_main, run_processed, raw_count,
                   run_outcome, main_exit, summary_file, db_calls, errs0,
                   finalize_count>>

NextPair ==
    \/ MainRun
    \/ CollectDataPair
    \/ ProcessData
    \/ StoreRawPosts
    \/ StoreProcessedPosts
    \/ GenerateAlerts
    \/ RecordMetrics
    \/ Finalize
    \/ RunReturn

SpecPair == Init /\ [][NextPair]_vars

(***************************************************************************)
(* SpecOps: the operations of DatabaseHandler called directly, one after   *)
(* the other, on one handler.  db_calls counts the calls; last_call is the *)
(* last one, with the store before it in pre.  The store a behaviour       *)
(* starts from holds no post or one, and no alert or one that an operator  *)
(* has acknowledged.                                                       *)
(***************************************************************************)
OpPostIds == {"p1", "p2"}

OpFaults == {"none"} \cup DbFaults

Snapshot ==
    [raw |-> raw_posts, processed |-> processed_posts, alerts |-> alerts,
     metrics |-> pipeline_metrics]

OpCall(op, fault, ret, raised) ==
    [op |-> op, fault |-> fault, pre |-> Snapshot, ret |-> ret, raised |-> raised,
     known |-> FALSE, first |-> <<>>]

InitOps ==
    /\ raw_posts \in {<<>>, <<[post_id |-> "p1", ver |-> 2]>>}
    /\ processed_posts = <<>>
    /\ alerts \in {<<>>, <<[id |-> 1, post_id |-> "p1", triggered_at |-> 0,
                            acknowledged |-> TRUE]>>}
    /\ pipeline_metrics = <<>>
    /\ last_call = NoCall
    /\ pool = NewPool
    /\ InitRun

\* init_schema(): CREATE ... IF NOT EXISTS / CREATE OR REPLACE VIEW on a
\* schema that exists: no row changes; on any exception rollback and raise.
init_schema(fault) == [raised |-> fault # "none"]

\* get_unacknowledged_alerts: the SELECT.  alerts JOIN raw_posts ON post_id
\* WHERE acknowledged = FALSE, each row with the post's display fields
\* (ver).  ORDER BY triggered_at DESC leaves rows of equal triggered_at in
\* any order: the query's results are all the orderings it allows.
Joined(table, raw) ==
    {[id |-> table[i].id, post_id |-> table[i].post_id,
      triggered_at |-> table[i].triggered_at,
      acknowledged |-> table[i].acknowledged, ver |-> raw[j].ver] :
        <<i, j>> \in {ij \in (1..Len(table)) \X (1..Len(raw)) :
                        /\ table[ij[1]].post_id = raw[ij[2]].post_id
                        /\ table[ij[1]].acknowledged = FALSE}}

SortedDescending(rows) ==
    \A i, j \in 1..Len(rows) : i < j => rows[i].triggered_at >= rows[j].triggered_at

SelectUnacknowledged(table, raw) ==
    LET J == Joined(table, raw)
    IN  {rows \in [1..Cardinality(J) -> J] :
            /\ \A i, j \in 1..Cardinality(J) : rows[i] = rows[j] => i = j
            /\ SortedDescending(rows)}

\* Variant: get_unacknowledged_alerts with the except block of insert_alert.
get_unacknowledged_alerts_Reraises(rows, fault) ==
    IF fault # "none" THEN [ret |-> <<>>, raised |-> TRUE]
    ELSE [ret |-> rows, raised |-> FALSE]

\* get_unacknowledged_alerts: alerts = []; the except block logs only.
get_unacknowledged_alerts(rows, fault) ==
    IF fault # "none" THEN [ret |-> <<>>, raised |-> FALSE]
    ELSE [ret |-> rows, raised |-> FALSE]

\* What an operation meets on a closed pool: getconn() raises.
FaultOn(p, fault) == IF p.closed THEN "connect" ELSE fault

OpBegin ==
    /\ pc = "idle"
    /\ db_calls < MaxOpCalls
    /\ db_calls' = db_calls + 1

OpFrame ==
    UNCHANGED <<pc, metrics, runs, via_main, run_raw, run_processed, raw_count,
                exc, run_outcome, main_exit, summary_file, entered, active,
                errs0, finalize_count, metric_idx, rec_summary, failed, faults>>

OpInitSchema ==
    /\ OpBegin
    /\ \E f \in OpFaults :
        LET fault == FaultOn(pool, f)
            r == init_schema(fault)
        IN  /\ last_call' = OpCall("init_schema", fault, 0, r.raised)
            /\ pool' = UseConnection(pool, fault, r.raised)
    /\ UNCHANGED <<dbvars, now>>
    /\ OpFrame

OpInsertRawPosts ==
    /\ OpBegin
    /\ \E id \in OpPostIds, f \in RunFaults :
        LET fault == FaultOn(pool, f)
            r == insert_raw_posts(raw_posts, <<[post_id |-> id, ver |-> 1]>>, fault)
        IN  /\ raw_posts' = r.table
            /\ last_call' = OpCall("insert_raw_posts", fault, r.ret, r.raised)
            /\ pool' = UseConnection(pool, fault, r.raised)
    /\ UNCHANGED <<processed_posts, alerts, pipeline_metrics, now>>
    /\ OpFrame

OpInsertProcessedPosts ==
    /\ OpBegin
    /\ \E f \in RunFaults :
        LET fault == FaultOn(pool, f)
            r == insert_processed_posts(raw_posts, processed_posts,
                     <<[post_id |-> "p1", alert_triggered |-> TRUE]>>, fault)
        IN  /\ processed_posts' = r.table
            /\ last_call' = OpCall("insert_processed_posts", fault, r.ret, r.raised)
            /\ pool' = UseConnection(pool, fault, r.raised)
    /\ UNCHANGED <<raw_posts, alerts, pipeline_metrics, now>>
    /\ OpFrame

\* insert_alert; datetime.utcnow() may give the time of the last call again.
OpInsertAlert ==
    /\ OpBegin
    /\ \E id \in OpPostIds, f \in OpFaults, t \in {now, now + 1} :
        LET fault == FaultOn(pool, f)
            r == insert_alert(alerts, id, t, fault)
        IN  /\ now' = t
            /\ alerts' = r.table
            /\ last_call' = OpCall("insert_alert", fault, 0, r.raised)
            /\ pool' = UseConnection(pool, fault, r.raised)
    /\ UNCHANGED <<raw_posts, processed_posts, pipeline_metrics>>
    /\ OpFrame

OpRecordMetric ==
    /\ OpBegin
    /\ \E f \in {"none"} \cup MetricFaults :
        LET fault == FaultOn(pool, f)
            r == record_metric(pipeline_metrics, "error_count", 0, fault)
        IN  /\ pipeline_metrics' = r.table
            /\ last_call' = OpCall("record_metric", fault, 0, r.raised)
            /\ pool' = UseConnection(pool, fault, fault # "none")
    /\ UNCHANGED <<raw_posts, processed_posts, alerts, now>>
    /\ OpFrame

OpGetUnacknowledgedAlerts ==
    /\ OpBegin
    /\ \E f \in {"none", "connect", "execute"},
          rows \in SelectUnacknowledged(alerts, raw_posts) :
        LET fault == FaultOn(pool, f)
            r == get_unacknowledged_alerts(rows, fault)
        IN  /\ last_call' = OpCall("get_unacknowledged_alerts", fault, r.ret, r.raised)
            /\ pool' = UseConnection(pool, fault, fault # "none")
    /\ UNCHANGED <<dbvars, now>>
    /\ OpFrame

OpClose ==
    /\ OpBegin
    /\ LET r == close(pool)
       IN  /\ pool' = r.pool
           /\ last_call' = OpCall("close", "none", 0, r.raised)
    /\ UNCHANGED <<dbvars, now>>
    /\ OpFrame

NextOps ==
    \/ OpInitSchema
    \/ OpInsertRawPosts
    \/ OpInsertProcessedPosts
    \/ OpInsertAlert
    \/ OpRecordMetric
    \/ OpGetUnacknowledgedAlerts
    \/ OpClose

SpecOps == InitOps /\ [][NextOps]_vars

(***************************************************************************)
(* SpecMetrics: a PipelineMetrics accumulator whose start_stage and        *)
(* end_stage are called in any order, for any stage name, under a clock    *)
(* that never goes back.  last_call is the last call: the accumulator      *)
(* before it in pre, the stage name in first, whether the name was in      *)
(* stage_durations in known, and the log records the call emitted in ret.  *)
(***************************************************************************)
\* The log records end_stage emits: it has no logger call on either branch.
end_stage_log(m, stage_name) == <<>>

MetricsCall(op, stage_name, log) ==
    [op |-> op, fault |-> "none", pre |-> metrics, ret |-> log, raised |-> FALSE,
     known |-> metrics.stage_durations[stage_name].present,
     first |-> <<stage_name>>]

MetricsFrame ==
    UNCHANGED <<dbvars, pool, pc, runs, via_main, run_raw, run_processed,
                raw_count, exc, run_outcome, main_exit, summary_file, entered,
                active, db_calls, errs0, finalize_count, metric_idx,
                rec_summary, failed, faults>>

\* time.time() advances
ClockTick ==
    /\ now < MaxClock
    /\ now' = now + 1
    /\ UNCHANGED <<metrics, last_call>>
    /\ MetricsFrame

CallStartStage ==
    /\ \E stage_name \in TimedStages :
        /\ metrics' = start_stage(metrics, stage_name, now)
        /\ last_call' = MetricsCall("start_stage", stage_name, <<>>)
    /\ UNCHANGED now
    /\ MetricsFrame

CallEndStage ==
    /\ \E stage_name \in TimedStages :
        /\ metrics' = end_stage(metrics, stage_name, now)
        /\ last_call' = MetricsCall("end_stage", stage_name,
                                    end_stage_log(metrics, stage_name))
    /\ UNCHANGED now
    /\ MetricsFrame

NextMetrics == ClockTick \/ CallStartStage \/ CallEndStage

SpecMetrics == Init /\ [][NextMetrics]_vars

(***************************************************************************)
(* What the state says about the run in progress or, at "idle", about the  *)
(* last one.                                                               *)
(***************************************************************************)
FatalStages == {"collection", "processing", "storage"}

RunDone == pc = "idle" /\ run_outcome # "none"

AfterFinally == pc = "return" \/ RunDone

LastEntered == entered[Len(entered)]

EnteredSet == {entered[i] : i \in 1..Len(entered)}

\* An error entry of this run carries the tag.
Tagged(errors, from, stage) ==
    \E i \in (from + 1)..Len(errors) : errors[i].stage = stage

\* This run's _print_summary wrote the summary of the run.
SummaryWritten ==
    summary_file = [state |-> "written", content |-> <<get_summary(metrics)>>]

(***************************************************************************)
(* C1: in every run the stages are entered in the order collection,        *)
(* processing, storage, alerts, metrics: the stages entered so far are a   *)
(* prefix of that order (none twice, none out of order), at most one stage *)
(* is in progress, and it is the one entered last (every earlier one has   *)
(* ended).                                                                 *)
(***************************************************************************)
C1_StagesInOrder ==
    /\ IsPrefix(entered, <<"collection", "processing", "storage", "alerts", "metrics">>)
    /\ Cardinality(active) <= 1
    /\ active # {} => entered # <<>> /\ active = {LastEntered}
    /\ pc \in {"collection", "processing", "storage", "alerts", "metrics"}
          => active = {pc}
    /\ pc = "storage_processed" => active = {"storage"}
    /\ pc \in {"finalize", "return", "idle"} => active = {}

C1_Witness ==
    /\ pc = "return"
    /\ entered = <<"collection", "processing", "storage", "alerts", "metrics">>
    /\ runs > 0

(***************************************************************************)
(* C2: when collection, processing or storage fails, no later stage is     *)
(* entered, the summary has error_count >= 1 and an entry tagged with the  *)
(* failing stage (and so does the summary file this run wrote), an         *)
(* exception leaves run(), and main() returns non-zero.                    *)
(***************************************************************************)
C2_FatalStageAborts ==
    \A s \in FatalStages :
        s \in failed =>
            /\ entered # <<>> /\ LastEntered = s
            /\ pc \in {"finalize", "return", "idle"}
            /\ get_summary(metrics).error_count >= 1
            /\ Tagged(get_summary(metrics).errors, errs0, s)
            /\ (AfterFinally /\ "summary" \notin failed) =>
                  /\ summary_file.state = "written"
                  /\ summary_file.content[1].error_count >= 1
                  /\ Tagged(summary_file.content[1].errors, errs0, s)
            /\ pc = "return" => exc # "none"
            /\ pc = "idle" => /\ run_outcome = "raised"
                              /\ via_main => main_exit = "1"

C2_Witness ==
    /\ RunDone
    /\ "storage" \in failed
    /\ via_main
    /\ main_exit = "1"
    /\ summary_file.state = "written"

(***************************************************************************)
(* C3: when the alerting stage fails, the failure is an error of the       *)
(* summary, the metrics stage is still executed, run() returns normally    *)
(* and main() returns 0.                                                   *)
(***************************************************************************)
C3_AlertFailureNonFatal ==
    ("alerts" \in failed /\ RunDone) =>
        /\ Tagged(metrics.errors, errs0, "alerts")
        /\ "metrics" \in EnteredSet
        /\ run_outcome = "returned"
        /\ via_main => main_exit = "0"

\* C3, when _print_summary does not raise: what is left of the claim.
C3_UnlessSummaryWriteFails ==
    ("alerts" \in failed /\ RunDone /\ "summary" \notin failed) =>
        /\ Tagged(metrics.errors, errs0, "alerts")
        /\ "metrics" \in EnteredSet
        /\ run_outcome = "returned"
        /\ via_main => main_exit = "0"

(***************************************************************************)
(* C4: when the metrics-recording stage fails, the failure is caught, is   *)
(* appended to the summary's error list, is not re-raised, and does not    *)
(* change how the run ends.                                                *)
(***************************************************************************)
C4_MetricsFailureRecorded ==
    "metrics" \in failed =>
        /\ Len(metrics.errors) - errs0 >= 1 + (IF "alerts" \in failed THEN 1 ELSE 0)
        /\ pc \in {"finalize", "return", "idle"}
        /\ pc = "finalize" => exc = "none"

\* C4 without the error entry: the failure is caught and not re-raised.
C4_MetricsFailureCaught ==
    "metrics" \in failed =>
        /\ Len(metrics.errors) - errs0 = (IF "alerts" \in failed THEN 1 ELSE 0)
        /\ pc \in {"finalize", "return", "idle"}
        /\ pc = "finalize" => exc = "none"
        /\ (RunDone /\ "summary" \notin failed) => run_outcome = "returned"

(***************************************************************************)
(* C5 as stated: every run reaches finalization exactly once, end_time is  *)
(* stamped and the summary artifact is written.                            *)
(***************************************************************************)
C5_SummaryAlwaysWritten ==
    AfterFinally =>
        /\ finalize_count = 1
        /\ metrics.end_time = now
        /\ SummaryWritten

(***************************************************************************)
(* C5, amended: every run reaches finalization exactly once, before it     *)
(* returns or raises: end_time is stamped and the summary write is         *)
(* attempted; the artifact holds the run's summary unless the write itself *)
(* failed, and then it is absent, truncated or an earlier run's.           *)
(***************************************************************************)
C5_FinalizedOnce ==
    /\ finalize_count <= 1
    /\ pc \notin {"idle", "return"} => finalize_count = 0
    /\ run_outcome # "none" => finalize_count = 1
    /\ AfterFinally =>
          /\ finalize_count = 1
          /\ metrics.end_time = now
          /\ metrics.end_time > metrics.start_time
          /\ "summary" \notin failed => SummaryWritten
          /\ "summary" \in failed =>
                /\ summary_file.state \in {"absent", "written", "truncated"}
                /\ summary_file.state = "written" =>
                      summary_file.content[1].end_time < metrics.start_time

C5_Witness ==
    /\ RunDone
    /\ run_outcome = "raised"
    /\ "processing" \in failed
    /\ SummaryWritten

(***************************************************************************)
(* C6: a run of a new pipeline whose collection returns no post enters no  *)
(* other stage, makes no persistence call, records no error, writes a      *)
(* summary with posts_collected = 0 and posts_processed = 0, and returns   *)
(* normally, so that main() returns 0.                                     *)
(***************************************************************************)
C6_EmptyCollectionNoOp ==
    (RunDone /\ via_main /\ "collection" \notin failed /\ run_raw = <<>>) =>
        /\ entered = <<"collection">>
        /\ db_calls = 0
        /\ metrics.errors = <<>>
        /\ SummaryWritten
        /\ summary_file.content[1].posts_collected = 0
        /\ summary_file.content[1].posts_processed = 0
        /\ run_outcome = "returned"
        /\ main_exit = "0"

\* C6, when _print_summary does not raise: what is left of the claim.
C6_UnlessSummaryWriteFails ==
    (RunDone /\ via_main /\ "collection" \notin failed /\ run_raw = <<>>) =>
        /\ entered = <<"collection">>
        /\ db_calls = 0
        /\ metrics.errors = <<>>
        /\ "summary" \notin failed =>
              /\ SummaryWritten
              /\ summary_file.content[1].posts_collected = 0
              /\ summary_file.content[1].posts_processed = 0
              /\ run_outcome = "returned"
              /\ main_exit = "0"

(***************************************************************************)
(* C7: a run whose collection returns posts and whose processing returns   *)
(* none enters no stage after processing, makes no persistence call,       *)
(* records no error, writes the summary, and returns normally, so that     *)
(* main() returns 0.                                                       *)
(***************************************************************************)
ProcessedNothing ==
    /\ RunDone
    /\ run_raw # <<>>
    /\ "processing" \in EnteredSet
    /\ "processing" \notin failed
    /\ run_processed = <<>>

C7_EmptyProcessingNoOp ==
    ProcessedNothing =>
        /\ entered = <<"collection", "processing">>
        /\ db_calls = 0
        /\ Len(metrics.errors) = errs0
        /\ SummaryWritten
        /\ run_outcome = "returned"
        /\ via_main => main_exit = "0"

\* C7, when _print_summary does not raise: what is left of the claim.
C7_UnlessSummaryWriteFails ==
    ProcessedNothing =>
        /\ entered = <<"collection", "processing">>
        /\ db_calls = 0
        /\ Len(metrics.errors) = errs0
        /\ "summary" \notin failed =>
              /\ SummaryWritten
              /\ run_outcome = "returned"
              /\ via_main => main_exit = "0"

(***************************************************************************)
(* C8: main() returns non-zero exactly when a fatal stage (collection,     *)
(* processing, storage) aborted the run; no other failure, a failure of    *)
(* the summary write included, makes the exit code non-zero.               *)
(***************************************************************************)
C8_ExitCodeOnlyFatalStages ==
    (RunDone /\ via_main) =>
        /\ main_exit \in {"0", "1"}
        /\ main_exit = "1" <=> failed \cap FatalStages # {}

\* C8 as the code has it: the exit code is non-zero exactly when a fatal
\* stage failed or _print_summary raised.
C8_ExitCodeOfTheCode ==
    (RunDone /\ via_main) =>
        /\ main_exit \in {"0", "1"}
        /\ main_exit = "1" <=> failed \cap (FatalStages \cup {"summary"}) # {}

(***************************************************************************)
(* C9: the raw-post store holds one row per identifier; a call changes no  *)
(* stored row and adds, for every identifier that is new, the first post   *)
(* of the batch that carries it; a stored identifier raises no error (a    *)
(* call raises only when the environment fails it).                        *)
(***************************************************************************)
C9_RawPostsIdempotent ==
    /\ UniqueIds(raw_posts)
    /\ last_call.op = "insert_raw_posts" =>
          /\ IsPrefix(last_call.pre, raw_posts)
          /\ last_call.raised => last_call.fault # "none"
          /\ ~last_call.raised => raw_posts = last_call.pre \o last_call.first

C9_Witness ==
    /\ last_call.op = "insert_raw_posts"
    /\ ~last_call.raised
    /\ last_call.known
    /\ last_call.pre # <<>>
    /\ Len(raw_posts) = Len(last_call.pre) + 2

(***************************************************************************)
(* C10: the count a call returns is the number of rows it added: for       *)
(* insert_raw_posts the new identifiers of the batch, for                  *)
(* insert_processed_posts the length of the batch.                         *)
(***************************************************************************)
C10_ReturnedCountIsRowsAdded ==
    /\ (last_call.op = "insert_raw_posts" /\ ~last_call.raised) =>
          /\ last_call.ret = Len(raw_posts) - Len(last_call.pre)
          /\ last_call.ret = Len(last_call.first)
    /\ (last_call.op = "insert_processed_posts" /\ ~last_call.raised) =>
          /\ last_call.ret = Len(processed_posts) - Len(last_call.pre)
          /\ last_call.ret = Len(last_call.first)

\* C10 as the code has it: the count is cursor.rowcount, the row count of
\* the last statement of the batch (-1 for an empty batch).
C10_ReturnedCountOfTheCode ==
    (last_call.op # "none" /\ ~last_call.raised) =>
        LET table == IF last_call.op = "insert_raw_posts"
                     THEN raw_posts ELSE processed_posts
            added == Len(table) - Len(last_call.pre)
        IN  /\ last_call.ret \in {-1, 0, 1}
            /\ last_call.ret <= added
            /\ last_call.ret = -1 => added = 0

(***************************************************************************)
(* C11: a batch insert that fails for another reason than the identifier   *)
(* conflict (while building the values, in a statement, a foreign-key      *)
(* violation in the middle of the batch, at commit) raises to its caller   *)
(* and leaves its table exactly as it was before the call: no row of the   *)
(* batch is persisted.                                                     *)
(***************************************************************************)
C11_BatchAtomic ==
    last_call.op \in {"insert_raw_posts", "insert_processed_posts"} =>
        LET table == IF last_call.op = "insert_raw_posts"
                     THEN raw_posts ELSE processed_posts
            violates == last_call.op = "insert_processed_posts" /\ ~last_call.known
        IN  /\ (last_call.fault # "none" \/ violates) => last_call.raised
            /\ last_call.raised => table = last_call.pre
            /\ last_call.raised => (last_call.fault # "none" \/ violates)

\* A processed batch whose first post was insertable and whose later post
\* violated the foreign key; a raw batch with new rows that failed at commit.
C11_Witness ==
    /\ last_call.raised
    /\ \/ /\ last_call.op = "insert_processed_posts"
          /\ last_call.fault = "none"
          /\ Len(last_call.first) >= 2
          /\ HasPost(raw_posts, last_call.first[1].post_id)
       \/ /\ last_call.op = "insert_raw_posts"
          /\ last_call.fault = "commit"
          /\ last_call.first # <<>>

(***************************************************************************)
(* C12: every persistence operation (init_schema, insert_raw_posts,        *)
(* insert_processed_posts, insert_alert, record_metric,                    *)
(* get_unacknowledged_alerts), on every exit path, releases the connection *)
(* it acquired exactly once: between two operations no connection is       *)
(* checked out, and no more than one ever is.                              *)
(***************************************************************************)
C12_ConnectionReleased ==
    /\ pool.out = 0
    /\ pool.peak <= 1
    /\ (last_call.op \notin {"none", "close"} /\ last_call.fault # "connect")
          => pool.peak = 1

\* An operation has failed after it had its connection, on a handler that
\* served a call before.
C12_Witness ==
    /\ db_calls >= 2
    /\ last_call.op \in {"init_schema", "insert_raw_posts", "insert_processed_posts",
                         "insert_alert", "record_metric", "get_unacknowledged_alerts"}
    /\ last_call.fault \in {"execute", "commit", "connection_lost"}
    /\ pool.peak = 1

\* C12 within run(): the same in every state of Spec.
C12_WithinRun ==
    /\ pool.out = 0
    /\ pool.peak <= 1
    /\ db_calls > 0 => pool.peak = 1

(***************************************************************************)
(* C13: record_metric never propagates a failure, whichever step fails,    *)
(* and a failed call leaves the metrics table unchanged; insert_raw_posts, *)
(* insert_processed_posts and insert_alert propagate theirs.               *)
(***************************************************************************)
C13_RecordMetricSwallows ==
    /\ last_call.op = "record_metric" =>
          /\ ~last_call.raised
          /\ last_call.fault # "none" => pipeline_metrics = last_call.pre.metrics
    /\ (/\ last_call.op \in {"insert_raw_posts", "insert_processed_posts",
                             "insert_alert"}
        /\ last_call.fault # "none") => last_call.raised

\* C13 as the code has it: record_metric raises only when the rollback of
\* its except block raises.
C13_RecordMetricOfTheCode ==
    /\ last_call.op = "record_metric" =>
          /\ last_call.raised <=> last_call.fault = "connection_lost"
          /\ last_call.fault # "none" => pipeline_metrics = last_call.pre.metrics
    /\ (/\ last_call.op \in {"insert_raw_posts", "insert_processed_posts",
                             "insert_alert"}
        /\ last_call.fault # "none") => last_call.raised

(***************************************************************************)
(* C14: get_unacknowledged_alerts never raises; when acquiring the         *)
(* connection or the query fails it returns an empty list; it changes      *)
(* neither the alerts nor the raw posts.                                   *)
(***************************************************************************)
C14_ReadNeverRaises ==
    last_call.op = "get_unacknowledged_alerts" =>
        /\ ~last_call.raised
        /\ last_call.fault # "none" => last_call.ret = <<>>
        /\ alerts = last_call.pre.alerts
        /\ raw_posts = last_call.pre.raw

\* The query failed on a store that has an alert to return.
C14_Witness ==
    /\ last_call.op = "get_unacknowledged_alerts"
    /\ last_call.fault = "execute"
    /\ Joined(alerts, raw_posts) # {}
    /\ last_call.ret = <<>>

(***************************************************************************)
(* C15: a successful get_unacknowledged_alerts returns exactly the alerts  *)
(* whose acknowledged flag is false, every one of them once and no         *)
(* acknowledged one, each with the display fields of its post, the most    *)
(* recent first.                                                           *)
(***************************************************************************)
Unacknowledged(table) ==
    {table[i].id : i \in {k \in 1..Len(table) : ~table[k].acknowledged}}

ReturnedIds(rows) == {rows[i].id : i \in 1..Len(rows)}

C15_AllUnacknowledgedReturned ==
    (last_call.op = "get_unacknowledged_alerts" /\ last_call.fault = "none") =>
        /\ ReturnedIds(last_call.ret) = Unacknowledged(alerts)
        /\ Len(last_call.ret) = Cardinality(Unacknowledged(alerts))
        /\ SortedDescending(last_call.ret)
        /\ \A i \in 1..Len(last_call.ret) :
              \E j \in 1..Len(raw_posts) :
                 /\ raw_posts[j].post_id = last_call.ret[i].post_id
                 /\ raw_posts[j].ver = last_call.ret[i].ver

\* C15 as the code has it: the unacknowledged alerts whose post is stored.
C15_StoredPostsOnly ==
    (last_call.op = "get_unacknowledged_alerts" /\ last_call.fault = "none") =>
        /\ ReturnedIds(last_call.ret) =
              {a \in Unacknowledged(alerts) :
                  \E i \in 1..Len(alerts) :
                     alerts[i].id = a /\ HasPost(raw_posts, alerts[i].post_id)}
        /\ Len(last_call.ret) = Cardinality(ReturnedIds(last_call.ret))
        /\ SortedDescending(last_call.ret)
        /\ \A i \in 1..Len(last_call.ret) :
              \E j \in 1..Len(raw_posts) :
                 /\ raw_posts[j].post_id = last_call.ret[i].post_id
                 /\ raw_posts[j].ver = last_call.ret[i].ver

(***************************************************************************)
(* C16: close() is idempotent: a call on a handler whose pool is closed    *)
(* raises nothing and leaves the handler closed.                           *)
(***************************************************************************)
C16_CloseIdempotent ==
    last_call.op = "close" => (~last_call.raised /\ pool.closed)

\* C16 as the code has it: the first close() closes, every later one raises.
C16_CloseOfTheCode ==
    /\ last_call.op = "close" => pool.closed
    /\ (last_call.op = "close" /\ last_call.raised) => db_calls >= 2

(***************************************************************************)
(* C17: under a clock that never goes back, after any start_stage and      *)
(* end_stage calls, a stage has a recorded end only if it has a recorded   *)
(* start, its end is not before its start, its duration is end - start     *)
(* and not negative, and get_summary reports that difference for it.       *)
(***************************************************************************)
C17_StageDurations ==
    \A s \in TimedStages :
        LET d == metrics.stage_durations[s]
        IN  d.has_end =>
              /\ d.present
              /\ d.end >= d.start
              /\ d.duration = d.end - d.start
              /\ d.duration >= 0
              /\ s \in DOMAIN get_summary(metrics).stage_durations
              /\ get_summary(metrics).stage_durations[s] = d.end - d.start

\* A stage that was ended, started again later and ended after a tick, next
\* to a stage that is started and not ended.
C17_Witness ==
    /\ last_call.op = "end_stage"
    /\ \E s, r \in TimedStages :
          /\ last_call.first = <<s>>
          /\ last_call.pre.stage_durations[s].start >= 1
          /\ metrics.stage_durations[s].duration >= 1
          /\ metrics.stage_durations[r].present
          /\ ~metrics.stage_durations[r].has_end

(***************************************************************************)
(* C18: end_stage for a stage name that was never started raises nothing,  *)
(* leaves the accumulator unchanged, and surfaces a warning that the stage *)
(* was ended without a start.                                              *)
(***************************************************************************)
C18_EndWithoutStartFlagged ==
    (last_call.op = "end_stage" /\ ~last_call.known) =>
        /\ ~last_call.raised
        /\ metrics = last_call.pre
        /\ last_call.ret # <<>>

\* C18 as the code has it: a silent no-op.
C18_EndWithoutStartSilent ==
    (last_call.op = "end_stage" /\ ~last_call.known) =>
        /\ ~last_call.raised
        /\ metrics = last_call.pre
        /\ last_call.ret = <<>>

(***************************************************************************)
(* C19: the summary a run writes holds only that run's counts, errors and  *)
(* stage durations, whatever runs the same pipeline made before.           *)
(***************************************************************************)
OnlyThisRun(sm) ==
    /\ sm.error_count = Len(metrics.errors) - errs0
    /\ sm.posts_collected = Len(run_raw)
    /\ sm.posts_processed = Len(run_processed)
    /\ "storage" \notin EnteredSet => sm.posts_stored = 0
    /\ ("alerts" \notin EnteredSet \/ "alerts" \in failed) => sm.alerts_generated = 0
    /\ DOMAIN sm.stage_durations \subseteq EnteredSet

C19_SummaryFreshEachRun ==
    (AfterFinally /\ "summary" \notin failed) => OnlyThisRun(summary_file.content[1])

\* C19 for the first run of a pipeline only.
C19_FirstRunSummary ==
    (AfterFinally /\ "summary" \notin failed /\ via_main)
        => OnlyThisRun(summary_file.content[1])

(***************************************************************************)
(* C20: in a run that reaches the metrics-recording stage, every value     *)
(* persisted through record_metric equals the field of the same name in    *)
(* the summary artifact of the run.  (Stated for the run main() makes on   *)
(* an empty metrics table: every row is then a row of that run.)           *)
(***************************************************************************)
C20_MetricsEqualSummary ==
    (AfterFinally /\ via_main /\ "metrics" \in EnteredSet /\ "summary" \notin failed) =>
        \A i \in 1..Len(pipeline_metrics) :
            pipeline_metrics[i].metric_value =
                summary_file.content[1][pipeline_metrics[i].metric_name]

\* C20 as the code has it: the values are those of a summary taken before
\* end_time is stamped, so that execution_time is recorded as 0.
C20_MetricsOfTheCode ==
    (AfterFinally /\ via_main /\ "metrics" \in EnteredSet /\ "summary" \notin failed) =>
        \A i \in 1..Len(pipeline_metrics) :
            LET row == pipeline_metrics[i]
            IN  IF row.metric_name = "execution_time"
                THEN /\ row.metric_value = 0
                     /\ summary_file.content[1].execution_time > 0
                ELSE row.metric_value = summary_file.content[1][row.metric_name]

(***************************************************************************)
(* C21: within a run raw posts are written before processed posts, and     *)
(* alerting starts only after storage has committed: in every state every  *)
(* processed row and every alert references a stored raw post; when the    *)
(* processed batch is about to be written the run's raw posts are stored,  *)
(* and once alerting is entered the run's processed posts are stored.      *)
(***************************************************************************)
AllStored(rows, table) ==
    \A i \in 1..Len(rows) : HasPost(table, rows[i].post_id)

C21_RawBeforeProcessedBeforeAlerts ==
    /\ AllStored(processed_posts, raw_posts)
    /\ AllStored(alerts, raw_posts)
    /\ pc = "storage_processed" => AllStored(run_raw, raw_posts)
    /\ "alerts" \in EnteredSet =>
          /\ AllStored(run_raw, raw_posts)
          /\ AllStored(run_processed, processed_posts)
    /\ AllStored(alerts, processed_posts)

C21_Witness ==
    /\ pc = "metrics"
    /\ alerts # <<>>
    /\ processed_posts # <<>>
    /\ raw_posts # <<>>

(***************************************************************************)
(* C22: when a fatal stage fails in the run of a new pipeline, the error   *)
(* list of the summary holds exactly two entries: the first tagged with    *)
(* the failing stage, the second tagged 'pipeline' with the same message;  *)
(* error_count is 2.                                                       *)
(***************************************************************************)
C22_TwoEntriesPerFatalFailure ==
    \A s \in FatalStages :
        (via_main /\ s \in failed) =>
            LET sm == get_summary(metrics)
            IN  /\ failed \cap FatalStages = {s}
                /\ sm.error_count = 2
                /\ Len(sm.errors) = 2
                /\ sm.errors[1].stage = s
                /\ sm.errors[2].stage = "pipeline"
                /\ sm.errors[2].error = sm.errors[1].error
                /\ (AfterFinally /\ "summary" \notin failed) =>
                      /\ summary_file.content[1].error_count = 2
                      /\ summary_file.content[1].errors = sm.errors

C22_Witness ==
    /\ RunDone
    /\ via_main
    /\ "processing" \in failed
    /\ SummaryWritten
    /\ summary_file.content[1].error_count = 2

(***************************************************************************)
(* C23: the storage stage is not atomic across its two batches: the step   *)
(* in which insert_processed_posts fails, after insert_raw_posts has       *)
(* committed, leaves the raw rows of the run in the store, adds no         *)
(* processed row, leaves posts_stored as it was before the stage, and      *)
(* aborts the run as a fatal storage failure.                              *)
(***************************************************************************)
ProcessedBatchFails == pc = "storage_processed" /\ pc' = "finalize"

C23_StorageNotAtomic ==
    [][ProcessedBatchFails =>
          /\ raw_posts' = raw_posts
          /\ AllStored(run_raw, raw_posts')
          /\ processed_posts' = processed_posts
          /\ metrics'.posts_stored = metrics.posts_stored
          /\ "storage" \in failed'
          /\ exc' # "none"
          /\ Tagged(metrics'.errors, errs0, "storage")
          /\ entered' = entered /\ LastEntered = "storage"]_vars

\* The processed batch of a run has failed after the run's raw row was
\* committed as a new row.
C23_Witness ==
    /\ pc = "finalize"
    /\ "storage" \in failed
    /\ db_calls = 2
    /\ raw_count = 1
    /\ AllStored(run_raw, raw_posts)
    /\ ~AllStored(run_processed, processed_posts)
    /\ metrics.posts_stored = 0

(***************************************************************************)
(* C24: alerts_generated is written only by an alerting stage whose alert  *)
(* processing returned without failure, and is then the number of          *)
(* processed posts whose alert_triggered is true; when alert processing    *)
(* fails it is left as it was, whatever number of alerts the call had      *)
(* persisted; no other step changes it.                                    *)
(***************************************************************************)
C24_AlertsGeneratedFrame ==
    [][/\ pc # "alerts" => metrics'.alerts_generated = metrics.alerts_generated
       /\ pc = "alerts" =>
             IF "alerts" \in failed'
             THEN metrics'.alerts_generated = metrics.alerts_generated
             ELSE /\ metrics'.alerts_generated = Len(Triggered(run_processed))
                  /\ Len(alerts') = Len(alerts) + Len(Triggered(run_processed))]_vars

\* Alert processing has failed at the second of two alerts, the first one
\* persisted.
C24_Witness ==
    /\ pc = "metrics"
    /\ "alerts" \in failed
    /\ Len(Triggered(run_processed)) = 2
    /\ Len(alerts) = 1
    /\ metrics.alerts_generated = 0

\* A run with a processed post that triggers an alert and one that does
\* not, whose alert processing has returned.
C24_WitnessCounted ==
    /\ pc = "metrics"
    /\ "alerts" \notin failed
    /\ Len(run_processed) = 2
    /\ metrics.alerts_generated = 1
    /\ Len(alerts) = 1

=============================================================================
